---- MODULE Spec2Model ----
(***************************************************************************)
(* FloodNetClient (src/src/floodnet_client/client.py): the single-slot     *)
(* deployment cache and the per-deployment depth retrieval; and            *)
(* SpatialFloodNetClient (src/src/floodnet_client/spatial.py): the region  *)
(* queries built on them.                                                  *)
(*                                                                         *)
(* Time is counted in whole days: datetime values are integers and a       *)
(* timedelta(days=n) is the integer n.  A Python Optional is None (the     *)
(* empty tuple) or Some(v) (the one-element tuple holding v).              *)
(***************************************************************************)
EXTENDS Integers, Sequences, FiniteSets, TLC

\* ---------------------------------------------------------------- bounds
MaxTime == 1          \* the clock runs over 0..MaxTime
MaxStart == 1         \* start_time arguments are 0..MaxStart
MaxIds == 2           \* longest deployment_ids argument
MaxReadings == 2      \* most records in one depth payload
MaxDeployments == 2   \* most records in one deployments payload

\* ------------------------------------------------------ program constants
CACHE_EXPIRY == 1     \* timedelta(days=1)
max_duration == 7     \* timedelta(days=7)

None == <<>>
Some(v) == <<v>>

\* ------------------------------------------------------------- upstream
\* Identifiers the upstream system knows, and one it does not.
KnownIds == {"d1", "d2"}
AllIds == KnownIds \cup {"fake1"}

\* A deployment record as it arrives in JSON.  A coordinates array that does
\* not have exactly two elements fails Location's min_length/max_length.
RawDeployments == [deployment_id : KnownIds, coordinates : {<<1, 2>>, <<3>>}]

\* A depth record as it arrives in JSON; depth_proc_mm may be null.
ReadingTimes == {0}
RawReadings ==
    [deployment_id : KnownIds, time : ReadingTimes,
     depth_proc_mm : {None, Some(5)}]

SeqsUpTo(S, n) == UNION {[1..k -> S] : k \in 0..n}

\* What GET deployments/flood can answer: the transport fails, the status is
\* an error, the body is no JSON object of the expected shape, or it is one.
DeploymentResponses ==
    {[kind |-> k, deployments |-> <<>>] :
        k \in {"ConnectionError", "HTTPError", "NotJSON"}}
    \cup {[kind |-> "Object", deployments |-> ds] :
            ds \in SeqsUpTo(RawDeployments, MaxDeployments)}

\* What GET deployments/flood/{id}/depth can answer.  "NotObject" is a JSON
\* body that is no object (a list), "NoDepthData" an object without the
\* depth_data key, "NullDepthData" an object whose depth_data is null.
FailedDepthResponses ==
    {[kind |-> k, depth_data |-> <<>>] :
        k \in {"ConnectionError", "HTTPError", "NotJSON", "NotObject",
               "NoDepthData", "NullDepthData"}}

DepthResponses ==
    FailedDepthResponses
    \cup {[kind |-> "Object", depth_data |-> rs] :
            rs \in SeqsUpTo(RawReadings, MaxReadings)}

\* An identifier unknown to the upstream yields no reading: an error or an
\* empty collection.
UpstreamDepthResponses(dep_id) ==
    IF dep_id \in KnownIds
    THEN DepthResponses
    ELSE FailedDepthResponses \cup {[kind |-> "Object", depth_data |-> <<>>]}

DeploymentsRequest == [endpoint |-> "deployments/flood", dep_id |-> ""]

\* ---------------------------------------------------------------- regions
\* Deployments stand at two sites, (1, 2) and (4, 2); a payload may place either
\* identifier at either site.
RawSites == [deployment_id : KnownIds, coordinates : {<<1, 2>>, <<4, 2>>}]

\* What GET deployments/flood can answer where locations matter.
SiteResponses ==
    {[kind |-> "HTTPError", deployments |-> <<>>]}
    \cup {[kind |-> "Object", deployments |-> ds] :
            ds \in SeqsUpTo(RawSites, MaxDeployments)}

\* A shapely Polygon is taken to be one axis-parallel rectangle, a MultiPolygon
\* a set of rectangles that do not touch; both are sets of boxes.
Box(x1, y1, x2, y2) == [x1 |-> x1, y1 |-> y1, x2 |-> x2, y2 |-> y2]
BoxWest == Box(0, 0, 2, 4)     \* (1, 2) strictly inside
BoxEast == Box(3, 0, 5, 4)     \* (4, 2) strictly inside
BoxEdge == Box(1, 0, 5, 4)     \* (1, 2) on its west edge, (4, 2) inside
BoxAll == Box(0, 0, 5, 4)      \* both sites strictly inside

\* EPSG:32618 measures the same places in other units: a coordinate v of
\* EPSG:4326 is 10 * v + 100 there.
FromWgs84(b) ==
    Box(10 * b.x1 + 100, 10 * b.y1 + 100, 10 * b.x2 + 100, 10 * b.y2 + 100)

\* The values callers pass as geometry: a Polygon, a MultiPolygon, a GeoSeries
\* (shapes in order, with its crs), or something else (a str).
Polygon(b) == [type |-> "Polygon", shapes |-> <<{b}>>, crs |-> "none"]
MultiPolygon(bs) == [type |-> "MultiPolygon", shapes |-> <<bs>>, crs |-> "none"]
GeoSeries(shapes, crs) == [type |-> "GeoSeries", shapes |-> shapes, crs |-> crs]
NotAGeometry == [type |-> "str", shapes |-> <<>>, crs |-> "none"]

Geometries ==
    {NotAGeometry,
     GeoSeries(<<>>, "EPSG:4326"),
     Polygon(BoxWest),
     Polygon(BoxEdge),
     Polygon(BoxAll),
     MultiPolygon({BoxWest, BoxEast}),
     GeoSeries(<<{BoxWest}, {BoxEast}>>, "EPSG:4326"),
     GeoSeries(<<{FromWgs84(BoxWest)}>>, "EPSG:32618"),
     GeoSeries(<<{FromWgs84(BoxEdge)}, {FromWgs84(BoxWest)}>>, "EPSG:32618")}
DepthRequest(dep_id) == [endpoint |-> "depth", dep_id |-> dep_id]

\* ---------------------------------------------------------------- state
VARIABLES
    deployments_cache,  \* self._deployments_cache: None or Some(<<time, list>>)
    now,                \* datetime.now()
    pc,                 \* "idle", "deployments_response", "depth_loop", "done"
    op,                 \* the method the caller invoked last
    force_refresh,      \* argument of get_deployments
    start_time,         \* arguments of get_depth_data
    end_time,
    ids_arg,            \* the deployment_ids argument: None or Some(list)
    geometry,           \* the geometry argument: None or Some(value)
    deployments,        \* the local deployments of spatial.py 100
    deployment_ids,     \* the local deployment_ids, reassigned at client.py 119
    dep_idx,            \* position of the for loop over deployment_ids
    all_readings,
    requests,           \* the HTTP requests this call has issued, in order
    dep_response,       \* None or Some(the deployments response received)
    responses,          \* the depth responses this call has received
    outcome,            \* "running", "returned" or the exception raised
    result,             \* the list returned
    cache0,             \* deployments_cache and now when the call began
    now0,
    prev,               \* op, outcome and request count of the call before
    callers,            \* the threads that share the client, each at its line
    fetches             \* the <<time, list>> pairs that completed fetches stored

vars == <<deployments_cache, now, pc, op, force_refresh, start_time, end_time,
          ids_arg, geometry, deployments, deployment_ids, dep_idx, all_readings, requests, dep_response,
          responses, outcome, result, cache0, now0, prev, callers, fetches>>

\* Threads calling get_deployments and refresh_deployments_cache on one
\* client.  A caller is at "idle", "called" (before the test of client.py 41),
\* "unpack" (before line 42), "age_test" (before line 43), "request" (GET in
\* flight, line 49) or "done"; cached is its local pair (cache_time,
\* deployments).
Callers == {"c1", "c2"}

IdleCaller ==
    [pc |-> "idle", force_refresh |-> FALSE, cached |-> None,
     outcome |-> "none", result |-> None]

\* ------------------------------------------------------- pure functions
\* schemas.py: DeploymentResponse.model_validate_json accepts the payload
\* only if every record validates.
ValidDeployment(raw) == Len(raw.coordinates) = 2

ValidDeploymentResponse(r) ==
    /\ r.kind = "Object"
    /\ \A i \in 1..Len(r.deployments) : ValidDeployment(r.deployments[i])

\* A validated Deployment: longitude and latitude default to None.
ParseDeployment(raw) ==
    [deployment_id |-> raw.deployment_id,
     location |-> [coordinates |-> raw.coordinates],
     longitude |-> None,
     latitude |-> None]

\* Variant of ProcessCoordinates: the two coordinates are taken in the other
\* order.
ProcessCoordinatesSwapped(d) ==
    [d EXCEPT !.longitude = Some(d.location.coordinates[2]),
              !.latitude = Some(d.location.coordinates[1])]

\* client.py 60-62
ProcessCoordinates(d) ==
    [d EXCEPT !.longitude = Some(d.location.coordinates[1]),
              !.latitude = Some(d.location.coordinates[2])]

ProcessedDeployments(r) ==
    [i \in 1..Len(r.deployments) |->
        ProcessCoordinates(ParseDeployment(r.deployments[i]))]

\* Variants of CacheHit: the force_refresh test inverted, and a snapshot still
\* served on the day it expires.
CacheHitForced(force, c, t) ==
    /\ force
    /\ c # None
    /\ t - c[1][1] < CACHE_EXPIRY

CacheHitAtExpiry(force, c, t) ==
    /\ ~force
    /\ c # None
    /\ t - c[1][1] <= CACHE_EXPIRY

\* client.py 41-43
CacheHit(force, c, t) ==
    /\ ~force
    /\ c # None
    /\ t - c[1][1] < CACHE_EXPIRY

\* Variant of InvalidTimeRange: a window of exactly the maximum is refused.
InvalidTimeRangeAtMax(s, e) ==
    \/ s >= e
    \/ (e - s) >= max_duration

\* client.py 109-114
InvalidTimeRange(s, e) ==
    \/ s >= e
    \/ (e - s) > max_duration

\* schemas.py: DepthReading.model_validate
ValidReading(raw) == raw.depth_proc_mm # None

\* Variant of ParseReading: the timestamp is read one day early.
ParseReadingShifted(raw) ==
    [deployment_id |-> raw.deployment_id,
     time |-> raw.time - 1,
     depth_proc_mm |-> raw.depth_proc_mm[1]]

\* client.py 143: the typed reading keeps the record's identifier, timestamp
\* and depth as they arrived.
ParseReading(raw) ==
    [deployment_id |-> raw.deployment_id,
     time |-> raw.time,
     depth_proc_mm |-> raw.depth_proc_mm[1]]

\* Variant of ValidReadings: one invalid record discards the whole payload,
\* as validating the payload against DepthResponse would.
ValidReadingsAllOrNothing(raws) ==
    IF \A i \in 1..Len(raws) : ValidReading(raws[i])
    THEN [i \in 1..Len(raws) |-> ParseReading(raws[i])]
    ELSE <<>>

RECURSIVE ValidReadings(_)
\* client.py 140-147: the records that validate, in payload order
ValidReadings(raws) ==
    IF raws = <<>> THEN <<>>
    ELSE LET rest == ValidReadings(Tail(raws))
         IN IF ValidReading(Head(raws))
            THEN <<ParseReading(Head(raws))>> \o rest
            ELSE rest

\* client.py 130-162: what one identifier's response adds to all_readings
Contribution(r) ==
    IF r.kind = "Object" THEN ValidReadings(r.depth_data) ELSE <<>>

\* client.py 70-72: the handler logs and re-raises; nothing is assigned to
\* the cache, which keeps the value c it had.
FailedFetchCacheCleared(c) == None
FailedFetchCache(c) == c

\* client.py 67: one assignment stores the pair (datetime.now(), list).
\* Variant: the list of an existing snapshot is replaced, its time kept.
StoredSnapshotListOnly(c, t, list) ==
    IF c = None THEN Some(<<t, list>>) ELSE Some(<<c[1][1], list>>)

StoredSnapshot(c, t, list) == Some(<<t, list>>)

\* client.py 77
InvalidatedCacheKept(c) == c
InvalidatedCache(c) == None

\* Variant of IdsOmitted: the identifiers are resolved through
\* get_deployments whatever was passed.
IdsOmittedAlways(ids) == TRUE

\* client.py 117.  Variant: an empty list counts as omitted ("if not ids").
IdsOmittedOrEmpty(ids) == ids = None \/ ids = Some(<<>>)
IdsOmitted(ids) == ids = None

\* client.py 129-134: the request of the loop's iteration idx.  Variant: the
\* URL is built from a fixed identifier instead of the loop variable.
DepthRequestForFixedId(ids, idx) == DepthRequest("d1")
DepthRequestFor(ids, idx) == DepthRequest(ids[idx])

\* client.py 129, 158, 162: a failed iteration continues with the next
\* identifier; the loop ends after the last one.  Variant: a failed request
\* ends the loop.
LoopEndsOnError(r, idx, ids) ==
    idx = Len(ids) \/ r.kind \in {"ConnectionError", "HTTPError"}
LoopEnds(r, idx, ids) == idx = Len(ids)

\* Variant of DeploymentIdsOf: the identifiers in reverse order.
DeploymentIdsOfReversed(deps) ==
    [i \in 1..Len(deps) |-> deps[Len(deps) + 1 - i].deployment_id]

\* client.py 119
DeploymentIdsOf(deps) == [i \in 1..Len(deps) |-> deps[i].deployment_id]

\* client.py 86: d["deployment_id"] subscripts a Deployment.  Deployment is a
\* pydantic BaseModel (schemas.py 20), which defines no __getitem__, so the
\* first element of the comprehension raises TypeError; only the empty list
\* yields a value.  None stands for the exception.
SubscriptedIds(deps) == IF deps = <<>> THEN Some(<<>>) ELSE None

\* ------------------------------------------------- spatial.py, pure parts
\* spatial.py 46-52: the inputs _validate_geometry refuses with ValueError.
\* Variant: an empty GeoSeries is let through.
GeometryRejectedByTypeOnly(g) ==
    g.type \notin {"Polygon", "MultiPolygon", "GeoSeries"}

GeometryRejected(g) ==
    \/ g.type \notin {"Polygon", "MultiPolygon", "GeoSeries"}
    \/ (g.type = "GeoSeries" /\ Len(g.shapes) = 0)

\* spatial.py 46-48: a bare shape becomes a one-element GeoSeries in EPSG:4326
AsGeoSeries(g) ==
    IF g.type \in {"Polygon", "MultiPolygon"}
    THEN GeoSeries(g.shapes, "EPSG:4326")
    ELSE g

\* spatial.py 55: shapely.make_valid returns a valid geometry as it is; every
\* shape of Geometries is valid and simple, so the test of line 56 passes.
make_valid(shape) == shape

\* spatial.py 61.  Variant: the series is never reprojected.
NeverReprojected(crs) == FALSE
NeedsReprojection(crs) == crs # "EPSG:4326"

\* spatial.py 62: GeoSeries.to_crs("EPSG:4326") moves every vertex.
ToWgs84(b) ==
    Box((b.x1 - 100) \div 10, (b.y1 - 100) \div 10,
        (b.x2 - 100) \div 10, (b.y2 - 100) \div 10)

to_crs(shape, crs) ==
    IF crs = "EPSG:32618" THEN {ToWgs84(b) : b \in shape} ELSE shape

\* spatial.py 33-64: the exception raised, or the one-element GeoSeries
\* returned.  Only geometry.iloc[0], the first shape, is looked at (line 55);
\* iloc[0] of an empty series raises IndexError.
validate_geometry(g) ==
    IF GeometryRejected(g)
    THEN [exc |-> "ValueError", bounds |-> g]
    ELSE IF Len(AsGeoSeries(g).shapes) = 0
    THEN [exc |-> "IndexError", bounds |-> g]
    ELSE LET series == AsGeoSeries(g)
             valid_geom == make_valid(series.shapes[1])
         IN [exc |-> "none",
             bounds |->
                IF NeedsReprojection(series.crs)
                THEN GeoSeries(<<to_crs(valid_geom, series.crs)>>, "EPSG:4326")
                ELSE GeoSeries(<<valid_geom>>, series.crs)]

\* spatial.py 78: bounds.union_all(), the union of the shapes of the series
union_all(bounds) == UNION {bounds.shapes[i] : i \in 1..Len(bounds.shapes)}

\* spatial.py 19-26 and 78: Point(d.longitude, d.latitude).within(area); a
\* point on the edge of a box is not within it.
Within(d, area) ==
    \E b \in area :
        /\ b.x1 < d.longitude[1] /\ d.longitude[1] < b.x2
        /\ b.y1 < d.latitude[1] /\ d.latitude[1] < b.y2

\* Variant of deployments_within: nothing is filtered out.
deployments_within_unfiltered(deps, bounds) ==
    IF deps = <<>>
    THEN [exc |-> "AttributeError", value |-> <<>>]
    ELSE [exc |-> "none", value |-> deps]

\* spatial.py 75-84.  The frame built from an empty list has the geometry
\* column only, so filtered.deployment_id (line 81) raises AttributeError.
\* Else the identifiers of the rows within the union are collected and the
\* deployments whose identifier is among them are returned (line 84).
deployments_within(deps, bounds) ==
    IF deps = <<>>
    THEN [exc |-> "AttributeError", value |-> <<>>]
    ELSE LET ids == {deps[i].deployment_id :
                        i \in {k \in 1..Len(deps) :
                                  Within(deps[k], union_all(bounds))}}
         IN [exc |-> "none",
             value |-> SelectSeq(deps, LAMBDA d : d.deployment_id \in ids)]

\* spatial.py 126-130 with how='left': one row for every deployment, also for
\* one without a reading.
RECURSIVE MergeLeft(_, _)
MergeLeft(deps, readings) ==
    IF deps = <<>> THEN <<>>
    ELSE LET d == Head(deps)
             mine == SelectSeq(readings,
                        LAMBDA r : r.deployment_id = d.deployment_id)
         IN (IF mine = <<>>
             THEN <<[deployment_id |-> d.deployment_id,
                     geometry |-> Some(<<d.longitude[1], d.latitude[1]>>),
                     time |-> None, depth_mm |-> None]>>
             ELSE [i \in 1..Len(mine) |->
                     [deployment_id |-> d.deployment_id,
                      geometry |-> Some(<<d.longitude[1], d.latitude[1]>>),
                      time |-> Some(mine[i].time),
                      depth_mm |-> Some(mine[i].depth_proc_mm)]])
            \o MergeLeft(Tail(deps), readings)

RECURSIVE MergeRight(_, _)
\* spatial.py 126-130: merge(readings_df, on='deployment_id', how='right')
\* keeps the rows of readings_df in order, each once for every deployment of
\* its identifier, or once with no geometry when there is none.
MergeRight(deps, readings) ==
    IF readings = <<>> THEN <<>>
    ELSE LET r == Head(readings)
             mine == SelectSeq(deps,
                        LAMBDA d : d.deployment_id = r.deployment_id)
         IN (IF mine = <<>>
             THEN <<[deployment_id |-> r.deployment_id,
                     geometry |-> None,
                     time |-> Some(r.time),
                     depth_mm |-> Some(r.depth_proc_mm)]>>
             ELSE [i \in 1..Len(mine) |->
                     [deployment_id |-> r.deployment_id,
                      geometry |->
                        Some(<<mine[i].longitude[1], mine[i].latitude[1]>>),
                      time |-> Some(r.time),
                      depth_mm |-> Some(r.depth_proc_mm)]])
            \o MergeRight(deps, Tail(readings))

\* spatial.py 113-134.  A frame built from an empty list has no deployment_id
\* column: gdf[['deployment_id', 'geometry']] raises KeyError for no
\* deployments (line 126), and merge(on='deployment_id') raises KeyError for no
\* readings, pd.DataFrame([]) having no columns (lines 122, 126-130).
JoinReadings(deps, readings) ==
    IF deps = <<>> \/ readings = <<>>
    THEN [exc |-> "KeyError", value |-> <<>>]
    ELSE [exc |-> "none", value |-> MergeRight(deps, readings)]

\* ---------------------------------------------------------------- steps
Init ==
    /\ deployments_cache = None
    /\ now = 0
    /\ pc = "idle"
    /\ op = "none"
    /\ force_refresh = FALSE
    /\ start_time = 0
    /\ end_time = 0
    /\ ids_arg = None
    /\ geometry = None
    /\ deployments = <<>>
    /\ deployment_ids = None
    /\ dep_idx = 1
    /\ all_readings = <<>>
    /\ requests = <<>>
    /\ dep_response = None
    /\ responses = <<>>
    /\ outcome = "none"
    /\ result = <<>>
    /\ cache0 = None
    /\ now0 = 0
    /\ prev = [op |-> "none", outcome |-> "none", nreq |-> 0]
    /\ callers = [t \in Callers |-> IdleCaller]
    /\ fetches = {}

\* A caller invokes method o: the call's frame starts from the client's state.
Begin(o) ==
    /\ pc = "idle"
    /\ op' = o
    /\ cache0' = deployments_cache
    /\ now0' = now
    /\ dep_response' = None
    /\ responses' = <<>>
    /\ UNCHANGED <<now, prev, callers, fetches>>

Return(val) ==
    /\ pc' = "done"
    /\ outcome' = "returned"
    /\ result' = val

Raise(exc) ==
    /\ pc' = "done"
    /\ outcome' = exc
    /\ result' = <<>>

\* What the caller o does with the readings get_depth_data hands it:
\* spatial.py 112-134 joins them to deps, its deployments.
AfterReadings(o, deps, readings) ==
    IF o = "get_depth_data_within_geometry"
    THEN IF JoinReadings(deps, readings).exc # "none"
         THEN Raise(JoinReadings(deps, readings).exc)
         ELSE Return(JoinReadings(deps, readings).value)
    ELSE Return(readings)

\* client.py 121-129 and 164-166: enter the loop over ids, or return at once
EnterLoop(o, ids, deps) ==
    /\ deployment_ids' = Some(ids)
    /\ deployments' = deps
    /\ dep_idx' = 1
    /\ all_readings' = <<>>
    /\ IF ids = <<>>
       THEN AfterReadings(o, deps, <<>>)
       ELSE /\ pc' = "depth_loop"
            /\ outcome' = "running"
            /\ result' = <<>>

\* What get_deployments_within_geometry(g) answers from the list deps
\* (spatial.py 71-84); g has passed _validate_geometry when this is reached.
WithinGeometry(deps, g) == deployments_within(deps, validate_geometry(g).bounds)

\* spatial.py 96-110: the region is validated, the validated series is
\* handed to get_deployments_within_geometry, which validates it again, and
\* get_depth_data then checks the window.
RegionDepthAfterDeployments(o, deps, g, s, e) ==
    LET bounds == validate_geometry(g).bounds
        found == WithinGeometry(deps, bounds)
    IN IF found.exc # "none"
       THEN /\ Raise(found.exc)
            /\ deployments' = <<>>
            /\ deployment_ids' = None
            /\ dep_idx' = 1
            /\ all_readings' = <<>>
       ELSE IF InvalidTimeRange(s, e)
       THEN /\ Raise("ValueError")
            /\ deployments' = found.value
            /\ deployment_ids' = Some(DeploymentIdsOf(found.value))
            /\ dep_idx' = 1
            /\ all_readings' = <<>>
       ELSE EnterLoop(o, DeploymentIdsOf(found.value), found.value)

\* What the caller o does with the list get_deployments hands it.
AfterDeployments(o, deps) ==
    IF o = "get_depth_data"
    THEN EnterLoop(o, DeploymentIdsOf(deps), <<>>)
    ELSE IF o = "get_depth_data_within_geometry"
    THEN RegionDepthAfterDeployments(o, deps, geometry'[1],
                                     start_time', end_time')
    ELSE IF o = "get_deployments_within_geometry"
    THEN /\ IF WithinGeometry(deps, geometry'[1]).exc # "none"
            THEN Raise(WithinGeometry(deps, geometry'[1]).exc)
            ELSE Return(WithinGeometry(deps, geometry'[1]).value)
         /\ deployments' = <<>>
         /\ deployment_ids' = None
         /\ dep_idx' = 1
         /\ all_readings' = <<>>
    ELSE IF o = "get_deployment_ids"
    THEN /\ IF SubscriptedIds(deps) = None
            THEN Raise("TypeError")
            ELSE Return(SubscriptedIds(deps)[1])
         /\ deployments' = <<>>
         /\ deployment_ids' = None
         /\ dep_idx' = 1
         /\ all_readings' = <<>>
    ELSE /\ Return(deps)
         /\ deployments' = <<>>
         /\ deployment_ids' = None
         /\ dep_idx' = 1
         /\ all_readings' = <<>>

\* client.py 41-49: serve the cached list or issue the request
GetDeploymentsEnter(o, force, ids) ==
    /\ UNCHANGED deployments_cache
    /\ IF CacheHit(force, deployments_cache, now)
       THEN /\ requests' = <<>>
            /\ AfterDeployments(o, deployments_cache[1][2])
       ELSE /\ requests' = <<DeploymentsRequest>>
            /\ pc' = "deployments_response"
            /\ outcome' = "running"
            /\ result' = <<>>
            /\ deployments' = <<>>
            /\ deployment_ids' = ids
            /\ dep_idx' = 1
            /\ all_readings' = <<>>

get_deployments(force) ==
    /\ Begin("get_deployments")
    /\ force_refresh' = force
    /\ start_time' = 0
    /\ end_time' = 0
    /\ ids_arg' = None
    /\ geometry' = None
    /\ GetDeploymentsEnter("get_deployments", force, None)

\* client.py 79-86
get_deployment_ids ==
    /\ Begin("get_deployment_ids")
    /\ force_refresh' = FALSE
    /\ start_time' = 0
    /\ end_time' = 0
    /\ ids_arg' = None
    /\ geometry' = None
    /\ GetDeploymentsEnter("get_deployment_ids", FALSE, None)

\* spatial.py 71, 96: a region _validate_geometry refuses ends the call
RegionRefused(g) ==
    /\ Raise(validate_geometry(g).exc)
    /\ requests' = <<>>
    /\ deployments' = <<>>
    /\ deployment_ids' = None
    /\ dep_idx' = 1
    /\ all_readings' = <<>>
    /\ UNCHANGED deployments_cache

\* spatial.py 66-84
get_deployments_within_geometry(g) ==
    /\ Begin("get_deployments_within_geometry")
    /\ force_refresh' = FALSE
    /\ start_time' = 0
    /\ end_time' = 0
    /\ ids_arg' = None
    /\ geometry' = Some(g)
    /\ IF validate_geometry(g).exc # "none"
       THEN RegionRefused(g)
       ELSE GetDeploymentsEnter("get_deployments_within_geometry", FALSE, None)

\* spatial.py 86-134
get_depth_data_within_geometry(s, e, g) ==
    /\ Begin("get_depth_data_within_geometry")
    /\ force_refresh' = FALSE
    /\ start_time' = s
    /\ end_time' = e
    /\ ids_arg' = None
    /\ geometry' = Some(g)
    /\ IF validate_geometry(g).exc # "none"
       THEN RegionRefused(g)
       ELSE GetDeploymentsEnter("get_depth_data_within_geometry", FALSE, None)

\* client.py 50-72: the response of GET deployments/flood arrives
DeploymentsResponse(r) ==
    /\ pc = "deployments_response"
    /\ dep_response' = Some(r)
    /\ UNCHANGED <<now, op, force_refresh, start_time, end_time, ids_arg,
                   geometry, requests, responses, cache0, now0, prev,
                   callers, fetches>>
    /\ IF r.kind \in {"ConnectionError", "HTTPError"}
       THEN /\ Raise(r.kind)
            /\ deployments_cache' = FailedFetchCache(deployments_cache)
            /\ UNCHANGED <<deployments, deployment_ids, dep_idx, all_readings>>
       ELSE IF ~ValidDeploymentResponse(r)
       THEN /\ Raise("ValueError")
            /\ deployments_cache' = FailedFetchCache(deployments_cache)
            /\ UNCHANGED <<deployments, deployment_ids, dep_idx, all_readings>>
       ELSE /\ deployments_cache' =
                    StoredSnapshot(deployments_cache, now,
                                   ProcessedDeployments(r))
            /\ AfterDeployments(op, ProcessedDeployments(r))

\* client.py 74-77
refresh_deployments_cache ==
    /\ Begin("refresh_deployments_cache")
    /\ deployments_cache' = InvalidatedCache(deployments_cache)
    /\ requests' = <<>>
    /\ Return(<<>>)
    /\ force_refresh' = FALSE
    /\ start_time' = 0
    /\ end_time' = 0
    /\ ids_arg' = None
    /\ geometry' = None
    /\ deployments' = <<>>
    /\ deployment_ids' = None
    /\ dep_idx' = 1
    /\ all_readings' = <<>>

\* client.py 88-129
get_depth_data(s, e, ids) ==
    /\ Begin("get_depth_data")
    /\ force_refresh' = FALSE
    /\ start_time' = s
    /\ end_time' = e
    /\ ids_arg' = ids
    /\ geometry' = None
    /\ IF InvalidTimeRange(s, e)
       THEN /\ Raise("ValueError")
            /\ requests' = <<>>
            /\ deployments' = <<>>
            /\ deployment_ids' = ids
            /\ dep_idx' = 1
            /\ all_readings' = <<>>
            /\ UNCHANGED deployments_cache
       ELSE IF IdsOmitted(ids)
       THEN GetDeploymentsEnter("get_depth_data", FALSE, ids)
       ELSE /\ requests' = <<>>
            /\ UNCHANGED deployments_cache
            /\ EnterLoop("get_depth_data", ids[1], <<>>)

\* client.py 129-166: one iteration of the loop, and the return after the last
DepthStep(r) ==
    /\ pc = "depth_loop"
    /\ requests' = Append(requests, DepthRequestFor(deployment_ids[1], dep_idx))
    /\ responses' = Append(responses, r)
    /\ all_readings' = all_readings \o Contribution(r)
    /\ dep_idx' = dep_idx + 1
    /\ IF LoopEnds(r, dep_idx, deployment_ids[1])
       THEN AfterReadings(op, deployments, all_readings')
       ELSE UNCHANGED <<pc, outcome, result>>
    /\ UNCHANGED <<deployments_cache, now, op, force_refresh, start_time,
                   end_time, ids_arg, geometry, deployments, deployment_ids,
                   dep_response, cache0, now0, prev, callers, fetches>>

\* The upstream answers the request that was sent.
DepthLoop ==
    /\ pc = "depth_loop"
    /\ \E r \in UpstreamDepthResponses(
                    DepthRequestFor(deployment_ids[1], dep_idx).dep_id) :
            DepthStep(r)

\* The same step with the answers narrowed to an error status and to payloads
\* of at most one record, a valid one: enough where a claim is about the
\* requests and the cache and not about the readings.
CoarseDepthResponses ==
    {r \in DepthResponses :
        /\ r.kind \in {"HTTPError", "Object"}
        /\ Len(r.depth_data) <= 1
        /\ \A k \in 1..Len(r.depth_data) : ValidReading(r.depth_data[k])}

DepthLoopCoarse ==
    /\ pc = "depth_loop"
    /\ \E r \in CoarseDepthResponses \cap UpstreamDepthResponses(
                    DepthRequestFor(deployment_ids[1], dep_idx).dep_id) :
            DepthStep(r)

\* The caller takes the value or the exception and goes on to its next call;
\* only the summary of the finished call is kept.
Resume ==
    /\ pc = "done"
    /\ pc' = "idle"
    /\ prev' = [op |-> op, outcome |-> outcome, nreq |-> Len(requests)]
    /\ op' = "none"
    /\ force_refresh' = FALSE
    /\ start_time' = 0
    /\ end_time' = 0
    /\ ids_arg' = None
    /\ geometry' = None
    /\ deployments' = <<>>
    /\ deployment_ids' = None
    /\ dep_idx' = 1
    /\ all_readings' = <<>>
    /\ requests' = <<>>
    /\ dep_response' = None
    /\ responses' = <<>>
    /\ outcome' = "none"
    /\ result' = <<>>
    /\ cache0' = None
    /\ now0' = 0
    /\ UNCHANGED <<deployments_cache, now, callers, fetches>>

\* The clock advances between calls and while a request is in flight; it is
\* read at client.py 43 and 67 only.
Tick ==
    /\ now < MaxTime
    /\ pc \in {"idle", "deployments_response"}
    /\ now' = now + 1
    /\ UNCHANGED <<deployments_cache, pc, op, force_refresh, start_time,
                   end_time, ids_arg, geometry, deployments, deployment_ids,
                   dep_idx, all_readings, requests, dep_response, responses,
                   outcome, result, cache0, now0, prev, callers, fetches>>

\* The arguments callers pass: windows that end before, at and after their
\* start, of the longest duration allowed and of one day more.
IdLists == SeqsUpTo(AllIds, MaxIds)
StartTimes == 0..MaxStart
Durations == {-1, 0, 1, 2, max_duration, max_duration + 1}

GetDeployments == \E force \in BOOLEAN : get_deployments(force)
DeploymentsFetched == \E r \in DeploymentResponses : DeploymentsResponse(r)
GetDepthData ==
    \E s \in StartTimes, d \in Durations, ids \in {Some(l) : l \in IdLists} :
        get_depth_data(s, s + d, ids)

\* The cache operations alone.
NextCache ==
    \/ GetDeployments
    \/ get_deployment_ids
    \/ DeploymentsFetched
    \/ refresh_deployments_cache
    \/ Resume
    \/ Tick

SpecCache == Init /\ [][NextCache]_vars

\* Depth retrieval for the identifiers the caller names.
NextDepth ==
    \/ GetDepthData
    \/ DepthLoop
    \/ Resume

SpecDepth == Init /\ [][NextDepth]_vars

\* The region queries of SpatialFloodNetClient, over deployments at two sites;
\* windows of one day, of no length and of one day too many.
RegionWindows == {1, 0, max_duration + 1}

GetDeploymentsWithinGeometry ==
    \E g \in Geometries : get_deployments_within_geometry(g)

GetDepthDataWithinGeometry ==
    \E d \in RegionWindows, g \in Geometries :
        get_depth_data_within_geometry(0, d, g)

SitesFetched == \E r \in SiteResponses : DeploymentsResponse(r)

NextSpatial ==
    \/ GetDeploymentsWithinGeometry
    \/ GetDepthDataWithinGeometry
    \/ SitesFetched
    \/ DepthLoopCoarse
    \/ Resume
    \/ Tick

SpecSpatial == Init /\ [][NextSpatial]_vars

\* ---------------------------------------------- several callers at once
\* The frame of the single caller above is not in use here.
FrameUnchanged ==
    UNCHANGED <<pc, op, force_refresh, start_time, end_time, ids_arg, geometry,
                deployments, deployment_ids, dep_idx, all_readings, requests,
                dep_response, responses, outcome, result, cache0, now0, prev>>

\* Caller t invokes get_deployments(force).
CallerGetDeployments(t, force) ==
    /\ callers[t].pc = "idle"
    /\ callers' = [callers EXCEPT ![t] =
                    [IdleCaller EXCEPT !.pc = "called",
                                       !.force_refresh = force]]
    /\ UNCHANGED <<deployments_cache, now, fetches>>
    /\ FrameUnchanged

\* client.py 41: not force_refresh and self._deployments_cache
CallerTestsCache(t) ==
    /\ callers[t].pc = "called"
    /\ callers' = [callers EXCEPT ![t].pc =
                    IF ~callers[t].force_refresh /\ deployments_cache # None
                    THEN "unpack"
                    ELSE "request"]
    /\ UNCHANGED <<deployments_cache, now, fetches>>
    /\ FrameUnchanged

\* client.py 42: cache_time, deployments = self._deployments_cache reads the
\* attribute again; unpacking None raises TypeError.
CallerUnpacks(t) ==
    /\ callers[t].pc = "unpack"
    /\ callers' = [callers EXCEPT ![t] =
                    IF deployments_cache = None
                    THEN [@ EXCEPT !.pc = "done", !.outcome = "TypeError"]
                    ELSE [@ EXCEPT !.pc = "age_test",
                                   !.cached = deployments_cache]]
    /\ UNCHANGED <<deployments_cache, now, fetches>>
    /\ FrameUnchanged

\* client.py 43-45: the age of the pair unpacked decides
CallerTestsAge(t) ==
    /\ callers[t].pc = "age_test"
    /\ callers' = [callers EXCEPT ![t] =
                    IF now - callers[t].cached[1][1] < CACHE_EXPIRY
                    THEN [@ EXCEPT !.pc = "done", !.outcome = "returned",
                                   !.result = Some(callers[t].cached[1][2])]
                    ELSE [@ EXCEPT !.pc = "request"]]
    /\ UNCHANGED <<deployments_cache, now, fetches>>
    /\ FrameUnchanged

\* client.py 49-72: the response to caller t's request arrives
CallerResponse(t, r) ==
    /\ callers[t].pc = "request"
    /\ IF r.kind \in {"ConnectionError", "HTTPError"}
       THEN /\ callers' = [callers EXCEPT ![t].pc = "done",
                                          ![t].outcome = r.kind]
            /\ deployments_cache' = FailedFetchCache(deployments_cache)
            /\ UNCHANGED fetches
       ELSE IF ~ValidDeploymentResponse(r)
       THEN /\ callers' = [callers EXCEPT ![t].pc = "done",
                                          ![t].outcome = "ValueError"]
            /\ deployments_cache' = FailedFetchCache(deployments_cache)
            /\ UNCHANGED fetches
       ELSE /\ deployments_cache' =
                    StoredSnapshot(deployments_cache, now,
                                   ProcessedDeployments(r))
            /\ fetches' = fetches \cup {<<now, ProcessedDeployments(r)>>}
            /\ callers' = [callers EXCEPT
                            ![t].pc = "done",
                            ![t].outcome = "returned",
                            ![t].result = Some(ProcessedDeployments(r))]
    /\ UNCHANGED now
    /\ FrameUnchanged

\* client.py 74-77
CallerRefreshes(t) ==
    /\ callers[t].pc = "idle"
    /\ deployments_cache' = InvalidatedCache(deployments_cache)
    /\ callers' = [callers EXCEPT ![t] =
                    [IdleCaller EXCEPT !.pc = "done", !.outcome = "returned"]]
    /\ UNCHANGED <<now, fetches>>
    /\ FrameUnchanged

\* Caller t goes on to its next call.
CallerResumes(t) ==
    /\ callers[t].pc = "done"
    /\ callers' = [callers EXCEPT ![t] = IdleCaller]
    /\ UNCHANGED <<deployments_cache, now, fetches>>
    /\ FrameUnchanged

\* The answers to GET deployments/flood here: an error status, or a payload of
\* at most one record.
SnapshotResponses ==
    {r \in DeploymentResponses :
        r.kind \in {"HTTPError", "Object"} /\ Len(r.deployments) <= 1}

NextConcurrent ==
    \/ \E t \in Callers, force \in BOOLEAN : CallerGetDeployments(t, force)
    \/ \E t \in Callers : CallerTestsCache(t)
    \/ \E t \in Callers : CallerUnpacks(t)
    \/ \E t \in Callers : CallerTestsAge(t)
    \/ \E t \in Callers, r \in SnapshotResponses : CallerResponse(t, r)
    \/ \E t \in Callers : CallerRefreshes(t)
    \/ \E t \in Callers : CallerResumes(t)
    \/ Tick

SpecConcurrent == Init /\ [][NextConcurrent]_vars

\* Every operation of the client, deployment_ids given or omitted.
GetDepthDataAny ==
    \E s \in StartTimes, d \in Durations,
       ids \in {None} \cup {Some(l) : l \in IdLists} :
        get_depth_data(s, s + d, ids)

Next ==
    \/ GetDeployments
    \/ DeploymentsFetched
    \/ refresh_deployments_cache
    \/ GetDepthDataAny
    \/ DepthLoopCoarse
    \/ Resume
    \/ Tick

Spec == Init /\ [][Next]_vars

\* ------------------------------------------------------- the cache claims
\* The call in progress or just finished is get_deployments.
InGetDeployments == op = "get_deployments" /\ pc \in {"deployments_response", "done"}

\* The snapshot the call found is younger than one day.
FoundFresh == cache0 # None /\ now0 - cache0[1][1] < CACHE_EXPIRY

\* The list a deployments payload stands for, read off the raw records.
ListOfPayload(r) ==
    [i \in 1..Len(r.deployments) |->
        [deployment_id |-> r.deployments[i].deployment_id,
         location |-> [coordinates |-> r.deployments[i].coordinates],
         longitude |-> <<r.deployments[i].coordinates[1]>>,
         latitude |-> <<r.deployments[i].coordinates[2]>>]]

\* C1: a get_deployments(force_refresh = false) that finds a snapshot younger
\* than one day returns exactly the cached list, issues no request and leaves
\* the cache entry as it was.
C1_CacheHit ==
    (InGetDeployments /\ ~force_refresh /\ FoundFresh)
        => /\ pc = "done"
           /\ outcome = "returned"
           /\ result = cache0[1][2]
           /\ requests = <<>>
           /\ deployments_cache = cache0

C1_Witness ==
    /\ pc = "done"
    /\ op = "get_deployments"
    /\ ~force_refresh
    /\ FoundFresh
    /\ Len(cache0[1][2]) = 2
    /\ result = cache0[1][2]

\* C2: a get_deployments that finds no snapshot, or one aged a day or more, or
\* is forced, issues exactly one deployments request; if the request succeeds
\* the cache becomes (time of the fetch, list fetched) and that list is
\* returned.
C2_CacheMiss ==
    (InGetDeployments /\ (force_refresh \/ ~FoundFresh))
        => /\ requests = <<DeploymentsRequest>>
           /\ (pc = "done" /\ outcome = "returned")
                => /\ dep_response # None
                   /\ result = ListOfPayload(dep_response[1])
                   /\ deployments_cache = <<(<<now, result>>)>>

C2_Witness ==
    /\ pc = "done"
    /\ op = "get_deployments"
    /\ ~force_refresh
    /\ cache0 # None
    /\ now0 - cache0[1][1] = CACHE_EXPIRY
    /\ outcome = "returned"
    /\ Len(result) = 2
    /\ result # cache0[1][2]
    /\ deployments_cache[1][1] > cache0[1][1]

\* The response received is a failure: transport, status or payload.
FetchFailed ==
    /\ dep_response # None
    /\ \/ dep_response[1].kind # "Object"
       \/ \E i \in 1..Len(dep_response[1].deployments) :
            Len(dep_response[1].deployments[i].coordinates) # 2

\* C3: when the deployments request of get_deployments fails, the call fails
\* with an error and the cache entry is what it was before the call, also with
\* force_refresh = true; a later unforced call within the snapshot's
\* time-to-live is served from that snapshot.
C3_FailedRefreshKeepsCache ==
    /\ (pc = "done" /\ op = "get_deployments" /\ FetchFailed)
         => /\ outcome \in {"ConnectionError", "HTTPError", "ValueError"}
            /\ deployments_cache = cache0
    /\ (pc = "done" /\ op = "get_deployments"
            /\ outcome \notin {"returned", "none"})
         => (FetchFailed /\ deployments_cache = cache0)
    /\ (InGetDeployments /\ ~force_refresh /\ FoundFresh
            /\ prev.op = "get_deployments"
            /\ prev.outcome \notin {"returned", "none"})
         => (pc = "done" /\ result = cache0[1][2] /\ requests = <<>>)

C3_Witness ==
    /\ pc = "done"
    /\ op = "get_deployments"
    /\ force_refresh
    /\ FetchFailed
    /\ outcome = "ValueError"
    /\ cache0 # None
    /\ Len(cache0[1][2]) > 0
    /\ deployments_cache = cache0

\* The later call of C3: it follows a failed one and is served from the cache.
C3_LaterWitness ==
    /\ pc = "done"
    /\ op = "get_deployments"
    /\ prev.op = "get_deployments"
    /\ prev.outcome = "HTTPError"
    /\ ~force_refresh
    /\ FoundFresh
    /\ Len(result) > 0

\* C4: refresh_deployments_cache empties the cache and issues no request; the
\* get_deployments call after it issues exactly one request, at any time and
\* unforced too; an unforced get_deployments that follows a successful one
\* within the time-to-live adds no request, so the two issue at most one.
C4_Invalidation ==
    /\ (pc = "done" /\ op = "refresh_deployments_cache")
         => /\ deployments_cache = None
            /\ requests = <<>>
            /\ outcome = "returned"
    /\ (InGetDeployments /\ prev.op = "refresh_deployments_cache")
         => requests = <<DeploymentsRequest>>
    /\ (InGetDeployments /\ ~force_refresh /\ FoundFresh
            /\ prev.op = "get_deployments" /\ prev.outcome = "returned")
         => /\ requests = <<>>
            /\ prev.nreq + Len(requests) <= 1

C4_Witness ==
    /\ pc = "done"
    /\ op = "get_deployments"
    /\ prev.op = "refresh_deployments_cache"
    /\ ~force_refresh
    /\ now0 = 0
    /\ outcome = "returned"
    /\ Len(result) > 0
    /\ requests = <<DeploymentsRequest>>

\* The two consecutive calls of C4: one request between them.
C4_TwoCallsWitness ==
    /\ pc = "done"
    /\ op = "get_deployments"
    /\ prev.op = "get_deployments"
    /\ prev.outcome = "returned"
    /\ prev.nreq = 1
    /\ ~force_refresh
    /\ FoundFresh
    /\ requests = <<>>

\* ------------------------------------------------------- the depth claims
\* get_depth_data is running or has just finished.
InGetDepthData == op = "get_depth_data" /\ pc # "idle"

\* The window passed satisfies start < end and end - start <= 7 days.
WindowOk == start_time < end_time /\ end_time - start_time <= max_duration

\* The identifiers the caller named.
IdsGiven == ids_arg # None
Ids == ids_arg[1]

\* C5: with a valid window every identifier of deployment_ids gets exactly one
\* depth request, in list order, whatever happened to the identifiers before
\* it; no failure for one identifier makes the call fail.
C5_PerIdentifierIsolation ==
    (InGetDepthData /\ WindowOk /\ IdsGiven)
        => /\ dep_idx \in 1..(Len(Ids) + 1)
           /\ requests = [i \in 1..(dep_idx - 1) |->
                            [endpoint |-> "depth", dep_id |-> Ids[i]]]
           /\ Len(responses) = dep_idx - 1
           /\ pc = "depth_loop" => dep_idx <= Len(Ids)
           /\ pc = "done" => (dep_idx = Len(Ids) + 1 /\ outcome = "returned")

C5_Witness ==
    /\ pc = "done"
    /\ op = "get_depth_data"
    /\ IdsGiven
    /\ Len(Ids) = 2
    /\ outcome = "returned"
    /\ Len(requests) = 2
    /\ responses[1].kind = "ConnectionError"
    /\ responses[2].kind = "Object"
    /\ Len(result) = 2

C6_RefusedWitness ==
    /\ pc = "done"
    /\ op = "get_depth_data"
    /\ end_time - start_time = max_duration + 1
    /\ outcome = "ValueError"
    /\ requests = <<>>
    /\ ids_arg = None
    /\ cache0 # None
    /\ deployments_cache = cache0

\* A call with start = end is refused.
C6_EqualWitness ==
    /\ pc = "done"
    /\ op = "get_depth_data"
    /\ end_time = start_time
    /\ outcome = "ValueError"
    /\ requests = <<>>

\* C7: a call whose window lasts 2 days is rejected with a ValueError (what
\* test_invalid_time_range asserts under "Duration too long").
C7_TwoDaysRejected ==
    (pc = "done" /\ op = "get_depth_data" /\ end_time - start_time = 2)
        => outcome = "ValueError"

\* What a response contributes, read off the payload: the records whose
\* depth_proc_mm is a number, typed, in payload order; nothing from a failure.
KeptRecords(r) == SelectSeq(r.depth_data, LAMBDA raw : raw.depth_proc_mm # <<>>)

ExpectedOf(r) ==
    IF r.kind = "Object"
    THEN [i \in 1..Len(KeptRecords(r)) |->
            [deployment_id |-> KeptRecords(r)[i].deployment_id,
             time |-> KeptRecords(r)[i].time,
             depth_proc_mm |-> KeptRecords(r)[i].depth_proc_mm[1]]]
    ELSE <<>>

RECURSIVE ConcatExpected(_)
ConcatExpected(rs) ==
    IF rs = <<>> THEN <<>> ELSE ExpectedOf(Head(rs)) \o ConcatExpected(Tail(rs))

\* C8: the list returned is the concatenation, in the order of deployment_ids,
\* of each identifier's valid records in payload order, an identifier whose
\* request or parsing failed contributing nothing.
C8_ResultIsConcatenation ==
    (pc = "done" /\ op = "get_depth_data" /\ outcome = "returned" /\ IdsGiven)
        => /\ Len(responses) = Len(Ids)
           /\ \A j \in 1..Len(requests) : requests[j].dep_id = Ids[j]
           /\ result = ConcatExpected(responses)

C8_Witness ==
    /\ pc = "done"
    /\ op = "get_depth_data"
    /\ outcome = "returned"
    /\ IdsGiven
    /\ Ids = <<"d2", "d1">>
    /\ responses[1].kind = "Object"
    /\ Len(responses[1].depth_data) = 2
    /\ responses[1].depth_data[1].depth_proc_mm = <<>>
    /\ responses[1].depth_data[2].deployment_id = "d2"
    /\ responses[2].kind = "Object"
    /\ Len(responses[2].depth_data) = 2
    /\ Len(result) = 3
    /\ result[2] = result[3]

\* C9: with a valid window, an empty deployment_ids returns an empty list
\* without any request, and a list of identifiers all unknown to the upstream
\* returns an empty list; neither raises.
C9_EmptyAndUnknownIds ==
    /\ (InGetDepthData /\ WindowOk /\ ids_arg = <<(<<>>)>>)
         => /\ pc = "done"
            /\ outcome = "returned"
            /\ result = <<>>
            /\ requests = <<>>
    /\ (InGetDepthData /\ pc = "done" /\ WindowOk /\ IdsGiven
            /\ \A i \in 1..Len(Ids) : Ids[i] \notin KnownIds)
         => /\ outcome = "returned"
            /\ result = <<>>

C9_Witness ==
    /\ pc = "done"
    /\ op = "get_depth_data"
    /\ WindowOk
    /\ ids_arg = <<(<<>>)>>
    /\ cache0 # None
    /\ now0 - cache0[1][1] >= CACHE_EXPIRY
    /\ deployments_cache = cache0
    /\ outcome = "returned"
    /\ result = <<>>
    /\ requests = <<>>

C9_UnknownWitness ==
    /\ pc = "done"
    /\ op = "get_depth_data"
    /\ IdsGiven
    /\ Ids = <<"fake1", "fake1">>
    /\ Len(requests) = 2
    /\ responses[1].kind = "HTTPError"
    /\ responses[2].kind = "Object"
    /\ outcome = "returned"
    /\ result = <<>>

\* C10 as stated: every reading returned carries an identifier that was
\* requested, whatever the upstream answers.
C10_IdsAmongRequested ==
    (pc = "done" /\ op = "get_depth_data" /\ outcome = "returned" /\ IdsGiven)
        => \A i \in 1..Len(result) :
            \E j \in 1..Len(Ids) : result[i].deployment_id = Ids[j]

\* Every record of every payload carries the identifier of the request it
\* answers.
UpstreamAnswersForRequestedId ==
    \A j \in 1..Len(responses) :
        \A k \in 1..Len(responses[j].depth_data) :
            responses[j].depth_data[k].deployment_id = requests[j].dep_id

\* C10 amended: the readings carry the identifiers of the upstream's records;
\* they are among deployment_ids when the upstream answers each request with
\* records of the identifier requested.
C10_IdsAmongRequestedIfUpstreamFaithful ==
    (pc = "done" /\ op = "get_depth_data" /\ outcome = "returned" /\ IdsGiven
        /\ UpstreamAnswersForRequestedId)
        => \A i \in 1..Len(result) :
            \E j \in 1..Len(Ids) : result[i].deployment_id = Ids[j]

C10_Witness ==
    /\ pc = "done"
    /\ op = "get_depth_data"
    /\ outcome = "returned"
    /\ IdsGiven
    /\ Ids = <<"d1", "d2">>
    /\ UpstreamAnswersForRequestedId
    /\ Len(result) = 4
    /\ result[1].deployment_id = "d1"
    /\ result[4].deployment_id = "d2"

\* C11 as stated: every reading returned has its timestamp inside the window
\* [start_time, end_time] of the call, whatever the upstream answers.
C11_ReadingsInsideWindow ==
    (pc = "done" /\ op = "get_depth_data" /\ outcome = "returned")
        => \A i \in 1..Len(result) :
            /\ start_time <= result[i].time
            /\ result[i].time <= end_time

\* Every record of every payload is stamped inside the window of the call.
UpstreamAnswersInsideWindow ==
    \A j \in 1..Len(responses) :
        \A k \in 1..Len(responses[j].depth_data) :
            /\ start_time <= responses[j].depth_data[k].time
            /\ responses[j].depth_data[k].time <= end_time

\* C11 amended: the readings carry the timestamps of the upstream's records;
\* they lie inside [start_time, end_time] when every record the upstream
\* answered with does.
C11_ReadingsInsideWindowIfUpstreamFaithful ==
    (pc = "done" /\ op = "get_depth_data" /\ outcome = "returned"
        /\ UpstreamAnswersInsideWindow)
        => \A i \in 1..Len(result) :
            /\ start_time <= result[i].time
            /\ result[i].time <= end_time

\* Two payloads stamped on the first day of a window that starts that day.
C11_Witness ==
    /\ pc = "done"
    /\ op = "get_depth_data"
    /\ outcome = "returned"
    /\ start_time = 0
    /\ end_time = 1
    /\ Len(responses) = 2
    /\ UpstreamAnswersInsideWindow
    /\ Len(result) = 3
    /\ result[3].time = 0

\* ------------------------------------------------- get_deployment_ids
\* The list get_deployments handed to the call that has just finished: the
\* snapshot served from the cache, or the one the fetch stored.
DeploymentsObtained ==
    \/ (requests = <<>> /\ cache0 # None)
    \/ (dep_response # None /\ ValidDeploymentResponse(dep_response[1]))

\* C20: when get_deployments succeeds, get_deployment_ids does not fail and
\* returns the deployment_id of every deployment of that list, in order; it
\* serves a fresh snapshot without a request, as get_deployments() does.
C20_DeploymentIds ==
    (pc = "done" /\ op = "get_deployment_ids")
        => /\ (requests = <<>>) <=> FoundFresh
           /\ DeploymentsObtained
                => /\ outcome = "returned"
                   /\ result = [i \in 1..Len(deployments_cache[1][2]) |->
                                    deployments_cache[1][2][i].deployment_id]

\* ------------------------------------------------------ the region claims
\* get_depth_data_within_geometry is running or has just finished.
InRegionDepth == op = "get_depth_data_within_geometry" /\ pc # "idle"

\* get_deployments_within_geometry is running or has just finished.
InRegionDeployments == op = "get_deployments_within_geometry" /\ pc # "idle"

\* The region the caller passed.
Region == geometry[1]

\* C12: get_depth_data_within_geometry called with start >= end or with a
\* window longer than the maximum is refused with a ValueError before any
\* request is issued, and the cache is what it was when the call began, empty
\* or expired included.
C12_InvalidWindowFailsFast ==
    (InRegionDepth
        /\ (start_time >= end_time \/ end_time - start_time > max_duration))
        => /\ pc = "done"
           /\ outcome = "ValueError"
           /\ requests = <<>>
           /\ deployments_cache = cache0

\* The region is no Polygon, MultiPolygon or GeoSeries, or is a GeoSeries
\* without a shape.
RegionUnusable ==
    \/ Region.type \notin {"Polygon", "MultiPolygon", "GeoSeries"}
    \/ (Region.type = "GeoSeries" /\ Region.shapes = <<>>)

\* C13: both region queries, called with a region of another type or with an
\* empty GeoSeries, fail with a ValueError before any request is issued and
\* leave the cache as it was.
C13_UnusableRegionRefused ==
    ((InRegionDeployments \/ InRegionDepth) /\ RegionUnusable)
        => /\ pc = "done"
           /\ outcome = "ValueError"
           /\ requests = <<>>
           /\ dep_response = None
           /\ deployments_cache = cache0

\* A str is refused by get_deployments_within_geometry while the cache holds
\* a snapshot that has expired, which a request would have replaced.
C13_Witness ==
    /\ pc = "done"
    /\ op = "get_deployments_within_geometry"
    /\ Region = NotAGeometry
    /\ cache0 # None
    /\ now0 - cache0[1][1] >= CACHE_EXPIRY
    /\ outcome = "ValueError"
    /\ requests = <<>>
    /\ deployments_cache = cache0

\* An empty GeoSeries is refused by get_depth_data_within_geometry on a client
\* that has fetched nothing yet.
C13_EmptySeriesWitness ==
    /\ pc = "done"
    /\ op = "get_depth_data_within_geometry"
    /\ Region = GeoSeries(<<>>, "EPSG:4326")
    /\ WindowOk
    /\ cache0 = None
    /\ outcome = "ValueError"
    /\ requests = <<>>
    /\ deployments_cache = None

\* The region passes _validate_geometry.
RegionUsable == ~RegionUnusable

\* The call got its deployment list: from a fresh snapshot without a request,
\* or from a response that validated.
ListObtained ==
    \/ (dep_response = None /\ FoundFresh)
    \/ (dep_response # None /\ ValidDeploymentResponse(dep_response[1]))

\* C14: with a usable region and a valid window, a call whose deployments were
\* obtained and whose depth step produced no reading (no deployment within
\* the region, no record, or every retrieval failed) returns an empty table.
C14_NoReadingsReturnsEmptyTable ==
    (InRegionDepth /\ pc = "done" /\ RegionUsable /\ WindowOk
        /\ ListObtained /\ all_readings = <<>>)
        => /\ outcome = "returned"
           /\ result = <<>>

\* The identifiers that have a row in the table returned, and those of the
\* readings the depth step returned.
RowIds == {result[i].deployment_id : i \in 1..Len(result)}
ReadingIds == {all_readings[k].deployment_id : k \in 1..Len(all_readings)}

\* C15 as stated: every deployment that matched the region has a row in the
\* table returned, also one whose retrieval failed or returned no reading.
C15_MatchedDeploymentsAppear ==
    (InRegionDepth /\ pc = "done" /\ outcome = "returned")
        => \A i \in 1..Len(deployments) :
            deployments[i].deployment_id \in RowIds

\* C15 amended: the rows of the table returned are the readings of the depth
\* step, each with the location of its deployment; a deployment that matched
\* the region and has no reading has no row.
C15_RowsAreReadings ==
    (InRegionDepth /\ pc = "done" /\ outcome = "returned")
        => /\ RowIds = ReadingIds
           /\ \A i \in 1..Len(result) :
                \E k \in 1..Len(all_readings) :
                    /\ result[i].deployment_id = all_readings[k].deployment_id
                    /\ result[i].time = Some(all_readings[k].time)
                    /\ result[i].depth_mm = Some(all_readings[k].depth_proc_mm)
           /\ \A i \in 1..Len(deployments) :
                deployments[i].deployment_id \notin ReadingIds
                    => deployments[i].deployment_id \notin RowIds

\* Two deployments matched; the first has a reading, the retrieval of the
\* second failed, and the table has the first one's row only.
C15_Witness ==
    /\ pc = "done"
    /\ op = "get_depth_data_within_geometry"
    /\ outcome = "returned"
    /\ Len(deployments) = 2
    /\ deployments[1].deployment_id = "d1"
    /\ deployments[2].deployment_id = "d2"
    /\ Len(responses) = 2
    /\ responses[1].kind = "Object"
    /\ responses[2].kind = "HTTPError"
    /\ Len(result) = 1
    /\ result[1].deployment_id = "d1"
    /\ result[1].geometry = Some(<<1, 2>>)

\* The list get_deployments handed to the call: after a call that obtained it
\* the cache holds it.
CurrentList == deployments_cache[1][2]

\* The deployment's point lies strictly inside one of the boxes of the
\* boundary _validate_geometry returned for the region.
StrictlyInsideBoundary(d) ==
    \E b \in union_all(validate_geometry(Region).bounds) :
        /\ d.longitude[1] > b.x1 /\ d.longitude[1] < b.x2
        /\ d.latitude[1] > b.y1 /\ d.latitude[1] < b.y2

\* C16: get_deployments_within_geometry returns exactly the deployments of
\* the current list whose point lies strictly within the validated boundary,
\* in the order of the list, each once and unaltered; when every point lies
\* strictly within, the result is the list itself.
C16_ExactlyThoseWithin ==
    (InRegionDeployments /\ pc = "done" /\ RegionUsable /\ DeploymentsObtained)
        => /\ outcome = "returned"
           /\ result = SelectSeq(CurrentList, StrictlyInsideBoundary)
           /\ (\A i \in 1..Len(CurrentList) :
                    StrictlyInsideBoundary(CurrentList[i]))
                => result = CurrentList

\* The deployment's point lies strictly inside the i-th shape of the region,
\* the shape read in the region's own coordinate reference system.
StrictlyInsideShape(d, i) ==
    \E b \in to_crs(Region.shapes[i], Region.crs) :
        /\ d.longitude[1] > b.x1 /\ d.longitude[1] < b.x2
        /\ d.latitude[1] > b.y1 /\ d.latitude[1] < b.y2

\* C17: when the region is a GeoSeries of several shapes, a deployment whose
\* point lies strictly within any one of them, the first or a later one, is
\* among the deployments returned.
C17_AnyShapeOfCollection ==
    (InRegionDeployments /\ pc = "done" /\ outcome = "returned"
        /\ Region.type = "GeoSeries" /\ Len(Region.shapes) >= 2)
        => \A k \in 1..Len(CurrentList) :
            (\E i \in 1..Len(Region.shapes) :
                StrictlyInsideShape(CurrentList[k], i))
                => \E j \in 1..Len(result) : result[j] = CurrentList[k]

\* The region as its caller would reproject it: GeoSeries.to_crs("EPSG:4326")
\* applied to the whole series.
ReprojectedRegion ==
    GeoSeries([i \in 1..Len(Region.shapes) |->
                    to_crs(Region.shapes[i], Region.crs)],
              "EPSG:4326")

IdSet(deps) == {deps[i].deployment_id : i \in 1..Len(deps)}

C19_NoTornRead ==
    /\ (deployments_cache = None \/ deployments_cache[1] \in fetches)
    /\ \A t \in Callers :
        /\ (callers[t].pc = "done" /\ callers[t].result # None)
                => \E f \in fetches : callers[t].result[1] = f[2]
        /\ callers[t].cached # None => callers[t].cached[1] \in fetches

\* One caller is returned the list of an older fetch, unpacked before the
\* other caller's fetch replaced the snapshot it came from.
C19_Witness ==
    /\ callers["c1"].pc = "done"
    /\ callers["c1"].outcome = "returned"
    /\ callers["c1"].cached # None
    /\ callers["c2"].pc = "done"
    /\ callers["c2"].outcome = "returned"
    /\ callers["c2"].result # None
    /\ callers["c2"].force_refresh
    /\ deployments_cache # None
    /\ deployments_cache[1][2] = callers["c2"].result[1]
    /\ callers["c1"].result # callers["c2"].result
    /\ callers["c1"].cached # deployments_cache

\* ------------------------------------------------- omitted identifiers
\* get_depth_data was called with a valid window and without deployment_ids.
InDepthForAll == InGetDepthData /\ WindowOk /\ ids_arg = None

\* The depth requests for the deployments of list deps, in its order.
DepthRequestsFor(deps) ==
    [i \in 1..Len(deps) |->
        [endpoint |-> "depth", dep_id |-> deps[i].deployment_id]]

\* The first n elements of sequence q.
Prefix(q, n) == [i \in 1..n |-> q[i]]

\* C21: get_depth_data with a valid window and no deployment_ids issues no
\* deployments request when it finds a fresh snapshot and exactly one, first,
\* otherwise; a failed fetch fails the call with no depth request; else the
\* depth requests are those of the snapshot's deployments, one each, in the
\* snapshot's order.
C21_OmittedIdsResolveThroughCache ==
    InDepthForAll
        => IF FoundFresh
           THEN /\ dep_response = None
                /\ deployments_cache = cache0
                /\ pc \in {"depth_loop", "done"}
                /\ requests = Prefix(DepthRequestsFor(cache0[1][2]), dep_idx - 1)
                /\ pc = "done"
                    => /\ outcome = "returned"
                       /\ requests = DepthRequestsFor(cache0[1][2])
           ELSE /\ requests # <<>>
                /\ requests[1] = DeploymentsRequest
                /\ \A i \in 2..Len(requests) : requests[i] # DeploymentsRequest
                /\ pc = "deployments_response" => Len(requests) = 1
                /\ (pc = "done" /\ FetchFailed)
                    => /\ outcome \notin {"returned", "running"}
                       /\ requests = <<DeploymentsRequest>>
                       /\ responses = <<>>
                /\ (pc = "done" /\ ~FetchFailed)
                    => /\ outcome = "returned"
                       /\ requests = <<DeploymentsRequest>>
                            \o DepthRequestsFor(deployments_cache[1][2])
                       /\ deployments_cache[1][2]
                            = ProcessedDeployments(dep_response[1])

\* An expired snapshot is replaced by one request and the two deployments of
\* the new snapshot get one depth request each, in its order.
C21_Witness ==
    /\ pc = "done"
    /\ InDepthForAll
    /\ cache0 # None
    /\ ~FoundFresh
    /\ outcome = "returned"
    /\ Len(requests) = 3
    /\ requests[1] = DeploymentsRequest
    /\ requests[2].dep_id = "d2"
    /\ requests[3].dep_id = "d1"

\* A fresh snapshot of two deployments is used without a deployments request.
C21_FreshWitness ==
    /\ pc = "done"
    /\ InDepthForAll
    /\ FoundFresh
    /\ outcome = "returned"
    /\ Len(requests) = 2
    /\ requests[1].dep_id = "d2"
    /\ requests[2].dep_id = "d1"

\* The deployments fetch fails and so does the call.
C21_FailedWitness ==
    /\ pc = "done"
    /\ InDepthForAll
    /\ dep_response # None
    /\ dep_response[1].kind = "HTTPError"
    /\ outcome = "HTTPError"
    /\ requests = <<DeploymentsRequest>>

\* ------------------------------------------------ coordinate derivation
\* The deployment's longitude and latitude are set, to the first and the
\* second element of its location's coordinates.
Derived(d) ==
    /\ d.longitude = Some(d.location.coordinates[1])
    /\ d.latitude = Some(d.location.coordinates[2])

AllDerived(deps) == \A i \in 1..Len(deps) : Derived(deps[i])

\* C22: in every state every deployment of the cached snapshot, of a pair a
\* caller has unpacked and of a list get_deployments has returned, to a single
\* caller or to one of several running at once, has its longitude and
\* latitude derived from its coordinates.
C22_CoordinatesDerived ==
    /\ deployments_cache # None => AllDerived(deployments_cache[1][2])
    /\ (op = "get_deployments" /\ pc = "done" /\ outcome = "returned")
            => AllDerived(result)
    /\ \A t \in Callers :
        /\ callers[t].cached # None => AllDerived(callers[t].cached[1][2])
        /\ callers[t].result # None => AllDerived(callers[t].result[1])

\* A caller has been returned the deployment of the snapshot it unpacked
\* while the other caller's forced fetch is in flight.
C22_Witness ==
    /\ callers["c1"].pc = "done"
    /\ callers["c1"].outcome = "returned"
    /\ callers["c1"].cached # None
    /\ callers["c1"].result # None
    /\ Len(callers["c1"].result[1]) = 1
    /\ callers["c1"].result[1][1].longitude = Some(1)
    /\ callers["c1"].result[1][1].latitude = Some(2)
    /\ callers["c2"].pc = "request"
    /\ callers["c2"].force_refresh
    /\ deployments_cache # None

\* ------------------------------------------------- orchestration order
\* The depth requests the call has issued, in order.
DepthRequestsIssued == SelectSeq(requests, LAMBDA q : q.endpoint = "depth")

\* The filter step has run and succeeded: the region passed validation, the
\* deployments were obtained, and the list gave the filter rows to select from.
FilterSucceeded ==
    /\ RegionUsable
    /\ ListObtained
    /\ CurrentList # <<>>

\* What the filter step lets through: the deployments of the current list
\* that carry the identifier of a deployment strictly within the boundary.
PassedFilter ==
    LET ids == {CurrentList[i].deployment_id :
                    i \in {k \in 1..Len(CurrentList) :
                              StrictlyInsideBoundary(CurrentList[k])}}
    IN SelectSeq(CurrentList, LAMBDA d : d.deployment_id \in ids)

\* C23: get_depth_data_within_geometry issues depth requests only after the
\* region was validated, the deployments obtained and the filter applied, at
\* most one deployments request coming first; the depth requests are those of
\* the deployments the filter let through, one each, in order; when the
\* deployments fetch fails the call fails without a depth request.
C23_OrchestrationOrder ==
    InRegionDepth
        => /\ \A i \in 2..Len(requests) : requests[i].endpoint = "depth"
           /\ (requests # <<>> /\ requests[1] = DeploymentsRequest)
                <=> (RegionUsable /\ ~FoundFresh)
           /\ DepthRequestsIssued # <<>>
                => /\ FilterSucceeded
                   /\ deployments = PassedFilter
                   /\ DepthRequestsIssued
                        = Prefix(DepthRequestsFor(deployments),
                                 Len(DepthRequestsIssued))
           /\ (pc = "done" /\ FilterSucceeded /\ WindowOk)
                => /\ deployments = PassedFilter
                   /\ DepthRequestsIssued = DepthRequestsFor(deployments)
           /\ (pc = "done" /\ FetchFailed)
                => /\ outcome \notin {"returned", "running"}
                   /\ requests = <<DeploymentsRequest>>
           /\ (pc = "done" /\ RegionUnusable) => requests = <<>>

\* The snapshot is fetched, one of its two deployments lies within the box,
\* and that one alone gets a depth request.
C23_Witness ==
    /\ pc = "done"
    /\ InRegionDepth
    /\ Region = Polygon(BoxEdge)
    /\ outcome = "returned"
    /\ Len(CurrentList) = 2
    /\ CurrentList[1].deployment_id = "d1"
    /\ CurrentList[1].longitude = Some(1)
    /\ CurrentList[2].deployment_id = "d2"
    /\ requests = <<DeploymentsRequest, DepthRequest("d2")>>

\* The deployments fetch fails: the call fails and asks for no depth.
C23_FailedWitness ==
    /\ pc = "done"
    /\ InRegionDepth
    /\ WindowOk
    /\ dep_response # None
    /\ dep_response[1].kind = "HTTPError"
    /\ outcome = "HTTPError"
    /\ requests = <<DeploymentsRequest>>

\* ------------------------------------------- frame with explicit identifiers
\* C24: get_depth_data called with deployment_ids given, an empty list
\* included, issues no deployments request and leaves the cache as it found
\* it, while it runs and when it has returned or been refused.
C24_ExplicitIdsLeaveCache ==
    (InGetDepthData /\ IdsGiven)
        => /\ deployments_cache = cache0
           /\ dep_response = None
           /\ \A i \in 1..Len(requests) : requests[i].endpoint = "depth"
           /\ pc \in {"depth_loop", "done"}

\* The call found an expired snapshot, one of its two retrievals failed, and
\* it returned with the snapshot still in the cache.
C24_Witness ==
    /\ pc = "done"
    /\ op = "get_depth_data"
    /\ IdsGiven
    /\ Len(Ids) = 2
    /\ cache0 # None
    /\ ~FoundFresh
    /\ outcome = "returned"
    /\ Len(responses) = 2
    /\ responses[1].kind = "HTTPError"
    /\ responses[2].kind = "Object"
    /\ Len(result) = 1
    /\ deployments_cache = cache0

\* The call is refused for its window on a client that has fetched nothing.
C24_RefusedWitness ==
    /\ pc = "done"
    /\ op = "get_depth_data"
    /\ ids_arg = Some(<<>>)
    /\ ~WindowOk
    /\ outcome = "ValueError"
    /\ cache0 = None
    /\ deployments_cache = None
    /\ requests = <<>>

====
